---- MODULE Spec2Model ----
(***************************************************************************)
(* A model of rosdep's pip installer (rosdep2/platforms/pip.py), of its     *)
(* rospkg loader (rosdep2/rospkg_loader.py) and of its remote fetch        *)
(* (rosdep2/url_utils.py).                                                 *)
(*                                                                         *)
(* Python strings are sequences of one-character strings, so that split,   *)
(* concatenation and membership tests are computed and not assumed.  A     *)
(* command line is a sequence of arguments, each argument a string in the  *)
(* same representation.  None and the empty string/list are both falsy in  *)
(* Python; where the code only tests truthiness they are the same value.   *)
(***************************************************************************)
EXTENDS Integers, Sequences, FiniteSets, TLC

VARIABLES
    request,        \* the caller's request object handed to PipInstaller.resolve
    rosdep,         \* the version constraints handed to PipInstaller.resolve
    ncalls,         \* resolve calls made so far with this request object
    retPrev,        \* what the previous resolve call returned
    host,           \* the host as the pip backend sees it (executables, listing, probes)
    environ,        \* os.environ: the token variables of the process environment
    rospackList,    \* names the resource index (rospack) lists now
    rosstackList,   \* names the container index (rosstack) lists now
    world,          \* the manifests behind the two indexes
    depTypes,       \* RosPkgLoader.include_dep_types
    cacheRes,       \* RosPkgLoader._loadable_resource_cache
    cacheCatkin,    \* RosPkgLoader._catkin_packages_cache
    nList,          \* how often each index was listed, per caching getter
    first,          \* what the first call of each caching getter returned
    db,             \* the externally owned view database
    underlay,       \* RosPkgLoader._underlay_key
    call            \* the last operation: its arguments and its outcome

vars == <<request, rosdep, ncalls, retPrev, host, environ, rospackList, rosstackList, world,
          depTypes, cacheRes, cacheCatkin, nList, first, db, underlay, call>>

installerVars == <<request, rosdep, ncalls, retPrev>>
hostVars == <<host, environ>>
loaderVars == <<rospackList, rosstackList, world, depTypes, cacheRes, cacheCatkin,
                nList, first, db, underlay>>

----------------------------------------------------------------------------
(* Bounds *)

\* resolve calls made with one request object
MaxCalls == 2
\* calls of one caching getter on one loader
MaxGets == 3

----------------------------------------------------------------------------
(* Python's string and list primitives *)

Range(s) == {s[i] : i \in DOMAIN s}

\* x in list
InList(x, s) == \E i \in DOMAIN s : s[i] = x

\* index of the first occurrence of character c in s at or after i, 0 if none
RECURSIVE FindChar(_, _, _)
FindChar(s, c, i) ==
    IF i > Len(s) THEN 0
    ELSE IF s[i] = c THEN i
    ELSE FindChar(s, c, i + 1)

\* s.split(c) for a one-character separator: empty fields are kept
RECURSIVE SplitOn(_, _)
SplitOn(s, c) ==
    LET k == FindChar(s, c, 1)
    IN  IF k = 0 THEN <<s>>
        ELSE <<SubSeq(s, 1, k - 1)>> \o SplitOn(SubSeq(s, k + 1, Len(s)), c)

\* s.split(): split on runs of whitespace, no empty fields
SplitWhitespace(s) == SelectSeq(SplitOn(s, " "), LAMBDA f : f /= <<>>)

\* index of the first occurrence of "==" in s at or after i, 0 if none
RECURSIVE FindEqEq(_, _)
FindEqEq(s, i) ==
    IF i + 1 > Len(s) THEN 0
    ELSE IF s[i] = "=" /\ s[i + 1] = "=" THEN i
    ELSE FindEqEq(s, i + 1)

\* s.split('==')[0]
BeforeEqEq(s) ==
    LET k == FindEqEq(s, 1)
    IN  IF k = 0 THEN s ELSE SubSeq(s, 1, k - 1)

Alnum == {"x", "y", "z", "0", "1", "2"}

\* index of the first character of s outside [a-zA-Z0-9] at or after i, 0 if none
RECURSIVE FindNonAlnum(_, _)
FindNonAlnum(s, i) ==
    IF i > Len(s) THEN 0
    ELSE IF s[i] \notin Alnum THEN i
    ELSE FindNonAlnum(s, i + 1)

\* re.split('[^a-zA-Z0-9]', s)[0]
BeforeNonAlnum(s) ==
    LET k == FindNonAlnum(s, 1)
    IN  IF k = 0 THEN s ELSE SubSeq(s, 1, k - 1)

\* any(x in p for x in ['>', '<', '='])
HasVersionChar(p) == \E i \in DOMAIN p : p[i] \in {">", "<", "="}

\* truthiness of a str or a list
Truthy(v) == v /= <<>>

----------------------------------------------------------------------------
(* The strings of the model *)

PkgX == <<"x">>
PkgY == <<"y">>
PkgY20 == <<"y", "=", "=", "2", ".", "0">>
V10 == <<"1", ".", "0">>
V20 == <<"2", ".", "0">>

\* a version value of a rosdep rule; <<>> is an absent one (None or '')
Versions == {<<>>, V10, V20}

PkgLists == {<<>>, <<PkgX>>, <<PkgX, PkgY>>, <<PkgX, PkgY20>>}

ReqStrings == {<<>>, <<"x">>, <<"x", " ", "y">>, <<"x", " ", " ", "y">>}

\* The shapes resolve tells apart: a string, a list, a dict whose 'packages' is a
\* list or a string or is missing, and anything else.
Requests ==
    {[tag |-> "str", str |-> s, list |-> <<>>] : s \in ReqStrings}
    \cup {[tag |-> t, str |-> <<>>, list |-> l] : t \in {"list", "dict_list"}, l \in PkgLists}
    \cup {[tag |-> "dict_str", str |-> s, list |-> <<>>] : s \in ReqStrings}
    \cup {[tag |-> t, str |-> <<>>, list |-> <<>>] : t \in {"dict_none", "other"}}

\* The rosdep argument: given is FALSE for resolve(rosdep_args) with rosdep=None.
Rosdeps ==
    [given : BOOLEAN, version_eq : Versions, version_gte : Versions,
     version_lte : Versions, version_gt : Versions, version_lt : Versions]

----------------------------------------------------------------------------
(* PipInstaller.resolve *)

\* whether resolve accepts the request's type
ValidArgs(req) == req.tag /= "other"

\* the list `packages` is bound to before any version is appended
NormalizePackages(req) ==
    CASE req.tag = "dict_list" -> req.list
      [] req.tag = "dict_none" -> <<>>
      [] req.tag = "dict_str" -> SplitWhitespace(req.str)
      [] req.tag = "str" -> SplitOn(req.str, " ")
      [] req.tag = "list" -> req.list
      [] OTHER -> <<>>

\* whether `packages` is the caller's own list object (no copy is made)
SharesCallerList(req) == req.tag \in {"list", "dict_list"}

\* a mutated clause: the separating comma is forgotten
VersionClauseNoComma(package, specified, op, v) == package \o op \o v

\* package = package + ',' if pip_specify_version else package;
\* packages[i] = package + op + version
VersionClause(package, specified, op, v) ==
    (IF specified THEN package \o <<",">> ELSE package) \o op \o v

\* one `if rosdep.version_*:` block: st is (packages, pip_specify_version)
ApplyVersion(st, op, v) ==
    IF Truthy(v)
    THEN [packages |-> [i \in DOMAIN st.packages |->
                            VersionClause(st.packages[i], st.specified, op, v)],
          specified |-> TRUE]
    ELSE st

\* the `if rosdep.version_eq:` block, which never writes a comma
ApplyVersionEq(st, v) ==
    IF Truthy(v)
    THEN [packages |-> [i \in DOMAIN st.packages |-> st.packages[i] \o <<"=", "=">> \o v],
          specified |-> TRUE]
    ELSE st

\* the body of `if rosdep:`; the last loop (packages[i] = package) changes nothing
ResolveVersions(packages, rd) ==
    IF ~rd.given THEN packages
    ELSE LET s0 == [packages |-> packages, specified |-> FALSE]
             s1 == ApplyVersionEq(s0, rd.version_eq)
             s2 == ApplyVersion(s1, <<">", "=">>, rd.version_gte)
             s3 == ApplyVersion(s2, <<"<", "=">>, rd.version_lte)
             s4 == ApplyVersion(s3, <<">">>, rd.version_gt)
             s5 == ApplyVersion(s4, <<"<">>, rd.version_lt)
         IN  s5.packages

NoPrev == [has |-> FALSE, val |-> <<>>]

\* resolve(rosdep_args, rosdep): raises InvalidData, or rewrites `packages` in
\* place and returns it; the caller's list is that same object when it was given
\* as a list or as a dict's 'packages' list.
Resolve ==
    /\ ncalls < MaxCalls
    /\ ncalls' = ncalls + 1
    /\ IF ~ValidArgs(request)
       THEN /\ call' = [op |-> "resolve", exc |-> "InvalidData"]
            /\ UNCHANGED <<request, retPrev>>
       ELSE LET packages == NormalizePackages(request)
                out == ResolveVersions(packages, rosdep)
            IN  /\ call' = [op |-> "resolve", exc |-> "none",
                            packages |-> packages,
                            callerBefore |-> request.list,
                            prev |-> retPrev,
                            ret |-> out]
                /\ request' = IF SharesCallerList(request)
                              THEN [request EXCEPT !.list = out]
                              ELSE request
                /\ retPrev' = [has |-> TRUE, val |-> out]
    /\ UNCHANGED <<rosdep, hostVars, loaderVars>>

----------------------------------------------------------------------------
(* The host of the pip backend *)

\* an argument of a command line that is not a package identifier
Arg(word) == <<word>>

Newline == "\n"

\* the text `pip freeze` prints
FreezeOutputs ==
    { <<>>,
      <<"x", "=", "=", "1", ".", "0", Newline>>,
      <<"x", "=", "=", "1", ".", "0", Newline, "y", "=", "=", "1", ".", "0", Newline>> }

\* what starting a process can give: exit status 0, another exit status, or
\* OSError because the process cannot be started
ProbeResults == {"ok", "nonzero", "oserror"}

\* what `pip show <name>` gives: status 0 with output, status 0 without output,
\* another status, or OSError because the process cannot be started
ShowResults == {"found", "empty", "missing", "oserror"}

\* the probes of the model: x is found or missing, y gives any result
ShowMenu ==
    { f \in [{PkgX, PkgY} -> ShowResults] : f[PkgX] \in {"found", "missing"} }

\* The freeze probe run by read_stdout: it works, or it cannot be started and
\* read_stdout lets the OSError through, or it cannot be started and read_stdout
\* answers with no output.
FreezeProbes == {"ok", "oserror_raised", "oserror_empty"}

\* what get_pip_command looks at: `pipN` and `pythonN -m pip` probes, whether
\* ROS_PYTHON_VERSION is the running interpreter's, whether `import pip` works
PipEnvs ==
    { [pipN |-> "ok", samePy |-> TRUE, importPip |-> TRUE, pythonN |-> "ok"],
      [pipN |-> "oserror", samePy |-> TRUE, importPip |-> TRUE, pythonN |-> "oserror"],
      [pipN |-> "nonzero", samePy |-> TRUE, importPip |-> FALSE, pythonN |-> "ok"],
      [pipN |-> "oserror", samePy |-> FALSE, importPip |-> TRUE, pythonN |-> "nonzero"] }

Hosts ==
    [env : PipEnvs, freezeOut : FreezeOutputs, freezeProbe : FreezeProbes,
     show : ShowMenu, pipGE24 : BOOLEAN]

DetectLists == {<<>>, <<PkgX>>, <<PkgY20>>, <<PkgX, PkgY20>>}

----------------------------------------------------------------------------
(* get_pip_command, is_cmd_available, pip_detect *)

\* try: Popen(cmd); return 0 == returncode;  except OSError: return False
is_cmd_available(probe) == probe = "ok"

\* the first usable pip command line, or <<>> for None
get_pip_command(h) ==
    IF is_cmd_available(h.env.pipN) THEN <<Arg("pip3")>>
    ELSE IF h.env.samePy /\ h.env.importPip
         THEN <<Arg("sys.executable"), Arg("-m"), Arg("pip")>>
    ELSE IF is_cmd_available(h.env.pythonN)
         THEN <<Arg("python3"), Arg("-m"), Arg("pip")>>
    ELSE <<>>

\* pkg_list = output.split('\n'); for pkg in pkg_list: pkg_row = pkg.split('==');
\* if pkg_row[0] in pkgs: ret_list.append(pkg_row[0])
FreezeMatches(pkgs, output) ==
    LET rows == SplitOn(output, Newline)
        firsts == [i \in DOMAIN rows |-> BeforeEqEq(rows[i])]
    IN  SelectSeq(firsts, LAMBDA f : InList(f, pkgs))

\* the name handed to `pip show`
ShowName(pkg) == IF HasVersionChar(pkg) THEN BeforeNonAlnum(pkg) ELSE pkg

ShowResult(h, name) == IF name \in DOMAIN h.show THEN h.show[name] ELSE "missing"

\* the `pip show` loop over todo[i..]: Popen is not guarded, so an OSError ends
\* pip_detect; status 0 with output appends the requested name
RECURSIVE ShowLoop(_, _, _, _)
ShowLoop(h, todo, i, ret_list) ==
    IF i > Len(todo) THEN [exc |-> "none", ret |-> ret_list]
    ELSE LET r == ShowResult(h, ShowName(todo[i]))
         IN  IF r = "oserror" THEN [exc |-> "OSError", ret |-> <<>>]
             ELSE ShowLoop(h, todo, i + 1,
                           IF r = "found" THEN Append(ret_list, todo[i]) ELSE ret_list)

\* pip_detect(pkgs, exec_fn): custom is TRUE when the caller supplies exec_fn,
\* which then answers with the host's listing
pip_detect(h, pkgs, custom) ==
    IF ~Truthy(get_pip_command(h)) THEN [exc |-> "none", ret |-> <<>>]
    ELSE IF ~custom /\ h.freezeProbe = "oserror_raised" THEN [exc |-> "OSError", ret |-> <<>>]
    ELSE LET output == IF ~custom /\ h.freezeProbe = "oserror_empty" THEN <<>>
                       ELSE h.freezeOut
             ret_list == FreezeMatches(pkgs, output)
         IN  IF custom THEN [exc |-> "none", ret |-> ret_list]
             ELSE ShowLoop(h, SelectSeq(pkgs, LAMBDA p : ~InList(p, ret_list)), 1, ret_list)

----------------------------------------------------------------------------
(* PipInstaller.get_install_command *)

\* PackageManagerInstaller.get_packages_to_install: every package when reinstall
\* is set, else those detect does not report; detect is pip_detect without exec_fn
get_packages_to_install(h, resolved, reinstall) ==
    IF reinstall THEN [exc |-> "none", ret |-> resolved]
    ELSE LET d == pip_detect(h, resolved, FALSE)
         IN  IF d.exc /= "none" THEN d
             ELSE [exc |-> "none", ret |-> SelectSeq(resolved, LAMBDA p : ~InList(p, d.ret))]

SudoPrefix(as_root) == IF as_root THEN <<Arg("sudo"), Arg("-H")>> ELSE <<>>

\* PackageManagerInstaller.elevate_priv: the caller's privilege elevation
elevate_priv(as_root, cmd) == SudoPrefix(as_root) \o cmd

\* a mutated command: the upgrade flag is passed for every package
InstallArgsAlwaysUpgrade(cmd, p) == cmd \o <<Arg("-U")>> \o <<p>>

\* cmd + [p] if any(x in p for x in ['>', '<', '=']) else cmd + ['-U'] + [p]
InstallArgs(cmd, p) ==
    IF HasVersionChar(p) THEN cmd \o <<p>> ELSE cmd \o <<Arg("-U")>> \o <<p>>

get_install_command(h, resolved, reinstall, quiet, as_root) ==
    LET pip_cmd == get_pip_command(h)
    IN  IF ~Truthy(pip_cmd) THEN [exc |-> "InstallFailed", ret |-> <<>>]
        ELSE LET pk == get_packages_to_install(h, resolved, reinstall)
                 cmd == pip_cmd \o <<Arg("install")>>
                        \o (IF h.pipGE24 THEN <<Arg("--break-system-packages")>> ELSE <<>>)
                        \o (IF quiet THEN <<Arg("-q")>> ELSE <<>>)
                        \o (IF reinstall THEN <<Arg("-I")>> ELSE <<>>)
             IN  IF pk.exc /= "none" THEN pk
                 ELSE [exc |-> "none",
                       ret |-> [i \in DOMAIN pk.ret |->
                                   elevate_priv(as_root, InstallArgs(cmd, pk.ret[i]))]]

PipDetect ==
    /\ \E pkgs \in DetectLists, custom \in BOOLEAN :
          LET r == pip_detect(host, pkgs, custom)
          IN  call' = [op |-> "pip_detect", pkgs |-> pkgs, custom |-> custom,
                       exc |-> r.exc, ret |-> r.ret]
    /\ UNCHANGED <<installerVars, hostVars, loaderVars>>

GetInstallCommand ==
    /\ \E resolved \in DetectLists, reinstall \in BOOLEAN, quiet \in BOOLEAN,
          as_root \in BOOLEAN :
          LET r == get_install_command(host, resolved, reinstall, quiet, as_root)
          IN  call' = [op |-> "get_install_command", resolved |-> resolved,
                       reinstall |-> reinstall, quiet |-> quiet, as_root |-> as_root,
                       exc |-> r.exc, ret |-> r.ret]
    /\ UNCHANGED <<installerVars, hostVars, loaderVars>>

----------------------------------------------------------------------------
(* The resource index, the container index and their manifests *)

DEFAULT_VIEW_KEY == "*default*"

\* resources the resource index (rospack) can list
Packages == {"A", "B", "C"}
\* containers the container index (rosstack) can list
Stacks == {"S", "M", "invalid"}
\* every name a caller may ask about; "Z" is in no index
Names == Packages \cup {"S", "M", "Z"}
\* every view name a caller may ask about
ViewNames == Stacks \cup {DEFAULT_VIEW_KEY, "Z"}

Keys == {"foo", "bar"}

\* the dependency categories of a structured manifest
VALID_DEPENDENCY_TYPES == {"build", "exec", "doc"}

Dep(name, type, cond) == [name |-> name, type |-> type, cond |-> cond]

\* What the index holds for one resource: whether its manifest is the structured
\* one (is_catkin), the rosdeps its index manifest lists, and the dependencies
\* its package.xml declares (category, condition's value in this environment).
NodeMenu ==
    { [catkin |-> FALSE, rosdeps |-> {"foo"}, decl |-> <<>>],
      [catkin |-> FALSE, rosdeps |-> {"bar"}, decl |-> <<>>],
      [catkin |-> TRUE, rosdeps |-> {"bar"}, decl |-> <<Dep("bar", "exec", TRUE)>>],
      [catkin |-> TRUE, rosdeps |-> {"bar"}, decl |-> <<Dep("bar", "exec", FALSE)>>] }

\* A, the resource nothing depends on, keeps the legacy manifest
NodeChoices ==
    { f \in [Packages -> NodeMenu] : ~f["A"].catkin }

\* the depends-on relations: acyclic, A before B before C
DependsMenu ==
    { d \in [Packages -> SUBSET Packages] :
        /\ d["A"] \subseteq {"B", "C"}
        /\ d["B"] \subseteq {"C"}
        /\ d["C"] = {} }

\* the containers: S and invalid have a legacy stack manifest, M is a catkin
\* metapackage whose package.xml declares what stackDecl says
StackDeclMenu == { <<>>, <<Dep("bar", "exec", TRUE)>> }

Worlds == [nodes : NodeChoices, depends : DependsMenu, stackDecl : StackDeclMenu]

\* manifest.is_catkin of a listed name
IsCatkin(w, name) ==
    IF name \in Packages THEN w.nodes[name].catkin ELSE name = "M"

\* catkin_pkg.package.parse_package(path): the declared dependencies
ParsePackage(w, path) ==
    IF path.name \in Packages THEN w.nodes[path.name].decl ELSE w.stackDecl

\* rospack.get_manifest(package).rosdeps
ManifestRosdeps(w, package) == w.nodes[package].rosdeps

\* rospack.get_depends(package, implicit=True): everything reachable by depends-on
RECURSIVE GetDependsImplicit(_, _)
GetDependsImplicit(w, package) ==
    w.depends[package] \cup UNION {GetDependsImplicit(w, d) : d \in w.depends[package]}

\* include_dep_types as __init__ computes it from the dependency_types argument
IncludeDepTypes(dependency_types) ==
    IF dependency_types /= {}
    THEN VALID_DEPENDENCY_TYPES \cap dependency_types
    ELSE VALID_DEPENDENCY_TYPES \ {"doc"}

DependencyTypeArgs == { {}, {"build"} }

\* a memoized value: set is FALSE while the attribute is None
NoCache == [set |-> FALSE, val |-> <<>>]

\* `not cache`: None, or an empty list or dict
CacheFalsy(c) == ~c.set \/ DOMAIN c.val = {}

\* every ordering of a set as a list without repetition (list(set))
ListsOf(S) ==
    { f \in [1..Cardinality(S) -> S] : \A i, j \in DOMAIN f : f[i] = f[j] => i = j }

SeqOfSet(S) == CHOOSE f \in ListsOf(S) : TRUE

----------------------------------------------------------------------------
(* RosPkgLoader: the memoized getters *)

\* find_catkin_paths(src): (name, src.get_path(name)) of the catkin names src lists
FindCatkinPaths(w, src, listed) ==
    [x \in {n \in listed : IsCatkin(w, n)} |-> [index |-> src, name |-> x]]

\* dict.update: entries of the second dict win
DictUpdate(a, b) ==
    [x \in DOMAIN a \cup DOMAIN b |-> IF x \in DOMAIN b THEN b[x] ELSE a[x]]

\* _loadable_resource_cache after get_loadable_resources()
LoadableResourcesAfter(cache, listed) ==
    IF CacheFalsy(cache) THEN [set |-> TRUE, val |-> SeqOfSet(listed)] ELSE cache

\* _catkin_packages_cache after get_catkin_paths()
CatkinPathsAfter(cache, w, packListed, stackListed) ==
    IF CacheFalsy(cache)
    THEN [set |-> TRUE,
          val |-> DictUpdate(FindCatkinPaths(w, "rospack", packListed),
                             FindCatkinPaths(w, "rosstack", stackListed))]
    ELSE cache

----------------------------------------------------------------------------
(* RosPkgLoader.get_rosdeps and is_metapackage *)

\* the structured branch: the declared dependencies of the included categories
\* whose condition evaluated true, as a list of their keys
StructuredRosdeps(w, types, path) ==
    LET deps == SelectSeq(ParsePackage(w, path), LAMBDA d : d.type \in types)
        kept == SelectSeq(deps, LAMBDA d : d.cond)
    IN  [i \in DOMAIN kept |-> kept[i].name]

\* a mutated closure: the visited package's own rosdeps are left out
RospackImplicitRosdepsNoOwn(w, package) ==
    UNION {ManifestRosdeps(w, p) : p \in GetDependsImplicit(w, package)}

\* rospack_implicit_rosdeps: the rosdeps of everything the package depends on,
\* and its own
rospack_implicit_rosdeps(w, package) ==
    UNION {ManifestRosdeps(w, p) : p \in GetDependsImplicit(w, package)}
    \cup ManifestRosdeps(w, package)

rospack_get_rosdeps(w, package, implicit) ==
    IF implicit THEN rospack_implicit_rosdeps(w, package) ELSE ManifestRosdeps(w, package)

\* the legacy branch: the set `rosdeps` before list(rosdeps); get_depends is
\* called with its default, implicit=True
LegacyRosdeps(w, resource_name, implicit) ==
    LET own == rospack_get_rosdeps(w, resource_name, FALSE)
    IN  IF implicit
        THEN own \cup UNION {rospack_get_rosdeps(w, dep, TRUE) :
                                dep \in GetDependsImplicit(w, resource_name)}
        ELSE own

\* get_rosdeps(resource_name, implicit) on a loader whose memos are cr and cc:
\* the outcome, the lists it may return, and the memos afterwards
get_rosdeps(w, types, packListed, stackListed, cr, cc, resource_name, implicit) ==
    LET cc1 == CatkinPathsAfter(cc, w, packListed, stackListed)
        cr1 == LoadableResourcesAfter(cr, packListed)
    IN  IF resource_name \in DOMAIN cc1.val
        THEN [exc |-> "none", cacheRes |-> cr, cacheCatkin |-> cc1,
              rets |-> {StructuredRosdeps(w, types, cc1.val[resource_name])}]
        ELSE IF InList(resource_name, cr1.val)
        THEN IF resource_name \in packListed
             THEN [exc |-> "none", cacheRes |-> cr1, cacheCatkin |-> cc1,
                   rets |-> ListsOf(LegacyRosdeps(w, resource_name, implicit))]
             ELSE [exc |-> "ResourceNotFound", cacheRes |-> cr1, cacheCatkin |-> cc1,
                   rets |-> {<<>>}]
        ELSE IF resource_name \in stackListed
        THEN [exc |-> "none", cacheRes |-> cr1, cacheCatkin |-> cc1, rets |-> {<<>>}]
        ELSE [exc |-> "ResourceNotFound", cacheRes |-> cr1, cacheCatkin |-> cc1,
              rets |-> {<<>>}]

\* is_metapackage(resource_name)
is_metapackage(w, stackListed, resource_name) ==
    IF resource_name \in stackListed THEN IsCatkin(w, resource_name) ELSE FALSE

GetRosdeps ==
    /\ \E resource_name \in Names, implicit \in BOOLEAN :
          LET r == get_rosdeps(world, depTypes, rospackList, rosstackList,
                               cacheRes, cacheCatkin, resource_name, implicit)
          IN  /\ \E ret \in r.rets :
                    call' = [op |-> "get_rosdeps", name |-> resource_name,
                             implicit |-> implicit, exc |-> r.exc, ret |-> ret]
              /\ cacheRes' = r.cacheRes
              /\ cacheCatkin' = r.cacheCatkin
    /\ UNCHANGED <<installerVars, hostVars, rospackList, rosstackList, world, depTypes,
                   nList, first, db, underlay>>

IsMetapackage ==
    /\ \E resource_name \in Names :
          call' = [op |-> "is_metapackage", name |-> resource_name,
                   ret |-> is_metapackage(world, rosstackList, resource_name)]
    /\ UNCHANGED <<installerVars, hostVars, loaderVars>>

----------------------------------------------------------------------------
(* RosPkgLoader: get_loadable_resources, get_catkin_paths as operations *)

NoFirst == [has |-> FALSE, val |-> <<>>]

GetLoadableResources ==
    /\ nList.getsRes < MaxGets
    /\ LET after == LoadableResourcesAfter(cacheRes, rospackList)
           listed == IF CacheFalsy(cacheRes) THEN 1 ELSE 0
       IN  /\ cacheRes' = after
           /\ call' = [op |-> "get_loadable_resources", ret |-> after.val]
           /\ nList' = [nList EXCEPT !.getsRes = @ + 1, !.res = @ + listed]
           /\ first' = IF first.res.has THEN first
                       ELSE [first EXCEPT !.res = [has |-> TRUE, val |-> after.val]]
    /\ UNCHANGED <<installerVars, hostVars, rospackList, rosstackList, world, depTypes,
                   cacheCatkin, db, underlay>>

GetCatkinPaths ==
    /\ nList.getsCatkin < MaxGets
    /\ LET after == CatkinPathsAfter(cacheCatkin, world, rospackList, rosstackList)
           listed == IF CacheFalsy(cacheCatkin) THEN 1 ELSE 0
       IN  /\ cacheCatkin' = after
           /\ call' = [op |-> "get_catkin_paths", ret |-> after.val]
           /\ nList' = [nList EXCEPT !.getsCatkin = @ + 1, !.pack = @ + listed,
                                     !.stack = @ + listed]
           /\ first' = IF first.catkin.has THEN first
                       ELSE [first EXCEPT !.catkin = [has |-> TRUE, val |-> after.val]]
    /\ UNCHANGED <<installerVars, hostVars, rospackList, rosstackList, world, depTypes,
                   cacheRes, db, underlay>>

\* the index changes under the loader: a resource or a container appears or goes
IndexChange ==
    /\ \/ \E n \in {"A", "B"} :
             /\ rospackList' = IF n \in rospackList THEN rospackList \ {n}
                               ELSE rospackList \cup {n}
             /\ UNCHANGED rosstackList
       \/ \E n \in {"S", "M"} :
             /\ rosstackList' = IF n \in rosstackList THEN rosstackList \ {n}
                                ELSE rosstackList \cup {n}
             /\ UNCHANGED rospackList
    /\ call' = [op |-> "index_change"]
    /\ UNCHANGED <<installerVars, hostVars, world, depTypes, cacheRes, cacheCatkin,
                   nList, first, db, underlay>>

----------------------------------------------------------------------------
(* RosPkgLoader.load_view *)

\* rosdep_db.is_loaded(view_name)
is_loaded(d, view_name) == \E v \in d : v.name = view_name

\* get_loadable_views(): the containers listed now, and the default view
get_loadable_views(stackListed) == stackListed \cup {DEFAULT_VIEW_KEY}

\* a mutated load_view: the loadable views are not consulted
load_view_unchecked(d, stackListed, ukey, view_name) ==
    IF is_loaded(d, view_name) THEN [exc |-> "none", db |-> d]
    ELSE [exc |-> "none",
          db |-> d \cup {[name |-> view_name, deps |-> <<>>, source |-> "<nodata>"]}]

\* load_view(view_name, rosdep_db): the outcome and the database afterwards
load_view(d, stackListed, ukey, view_name) ==
    IF is_loaded(d, view_name) THEN [exc |-> "none", db |-> d]
    ELSE IF view_name \notin get_loadable_views(stackListed)
    THEN [exc |-> "ResourceNotFound", db |-> d]
    ELSE IF view_name = "invalid"
    THEN [exc |-> "ResourceNotFound", db |-> d]
    ELSE [exc |-> "none",
          db |-> d \cup {[name |-> view_name,
                          deps |-> IF ukey /= "" THEN <<ukey>> ELSE <<>>,
                          source |-> "<nodata>"]}]

LoadView ==
    /\ \E view_name \in ViewNames :
          LET r == load_view(db, rosstackList, underlay, view_name)
          IN  /\ db' = r.db
              /\ call' = [op |-> "load_view", name |-> view_name, exc |-> r.exc,
                          loadedBefore |-> is_loaded(db, view_name)]
    /\ UNCHANGED <<installerVars, hostVars, rospackList, rosstackList, world, depTypes,
                   cacheRes, cacheCatkin, nList, first, underlay>>

\* the database is owned by the caller: another loader registers a view in it
OtherLoaderSetsView ==
    /\ \E view_name \in ViewNames :
          /\ ~is_loaded(db, view_name)
          /\ db' = db \cup {[name |-> view_name, deps |-> <<>>, source |-> "other"]}
    /\ call' = [op |-> "other_set_view_data"]
    /\ UNCHANGED <<installerVars, hostVars, rospackList, rosstackList, world, depTypes,
                   cacheRes, cacheCatkin, nList, first, underlay>>

----------------------------------------------------------------------------
(* rosdep2/url_utils.py *)

\* the printable ASCII characters after the space, chr(33) to chr(126), in order;
\* chr(96), the grave accent, is written "grave"
AsciiPrintable ==
    << "!", "\"", "#", "$", "%", "&", "'", "(", ")", "*", "+", ",", "-", ".",
       "/", "0", "1", "2", "3", "4", "5", "6", "7", "8", "9", ":", ";", "<", "=",
       ">", "?", "@", "A", "B", "C", "D", "E", "F", "G", "H", "I", "J", "K", "L",
       "M", "N", "O", "P", "Q", "R", "S", "T", "U", "V", "W", "X", "Y", "Z", "[",
       "\\", "]", "^", "_", "grave", "a", "b", "c", "d", "e", "f", "g", "h", "i",
       "j", "k", "l", "m", "n", "o", "p", "q", "r", "s", "t", "u", "v", "w", "x",
       "y", "z", "{", "|", "}", "~" >>

\* ord(c) of an ASCII character; the space is chr(32)
Ord(c) ==
    IF c = " " THEN 32
    ELSE 32 + (CHOOSE i \in DOMAIN AsciiPrintable : AsciiPrintable[i] = c)

IsAscii(c) == c = " " \/ InList(c, AsciiPrintable)

AsciiUpper ==
    << "A", "B", "C", "D", "E", "F", "G", "H", "I", "J", "K", "L", "M", "N", "O",
       "P", "Q", "R", "S", "T", "U", "V", "W", "X", "Y", "Z" >>

AsciiLower ==
    << "a", "b", "c", "d", "e", "f", "g", "h", "i", "j", "k", "l", "m", "n", "o",
       "p", "q", "r", "s", "t", "u", "v", "w", "x", "y", "z" >>

Digits == {"0", "1", "2", "3", "4", "5", "6", "7", "8", "9"}

\* c.lower()
LowerChar(c) ==
    IF InList(c, AsciiUpper)
    THEN AsciiLower[CHOOSE i \in DOMAIN AsciiUpper : AsciiUpper[i] = c]
    ELSE c

\* s.lower()
Lower(s) == [i \in DOMAIN s |-> LowerChar(s[i])]

\* a character of the environment that ASCII cannot encode
NonAsciiChar == "U+00E9"

\* s.encode('ascii'): the bytes of s, or UnicodeEncodeError
encode_ascii(s) ==
    IF \A i \in DOMAIN s : IsAscii(s[i])
    THEN [exc |-> "none", bytes |-> [i \in DOMAIN s |-> Ord(s[i])]]
    ELSE [exc |-> "UnicodeEncodeError", bytes |-> <<>>]

B64Alphabet ==
    << "A", "B", "C", "D", "E", "F", "G", "H", "I", "J", "K", "L", "M", "N", "O",
       "P", "Q", "R", "S", "T", "U", "V", "W", "X", "Y", "Z", "a", "b", "c", "d",
       "e", "f", "g", "h", "i", "j", "k", "l", "m", "n", "o", "p", "q", "r", "s",
       "t", "u", "v", "w", "x", "y", "z", "0", "1", "2", "3", "4", "5", "6", "7",
       "8", "9", "+", "/" >>

\* base64.b64encode(bs).decode('ascii'): three bytes give four characters of the
\* alphabet, a last group of one or two bytes is padded with '='
RECURSIVE b64encode(_)
b64encode(bs) ==
    IF bs = <<>> THEN <<>>
    ELSE LET n == Len(bs)
             w == bs[1] * 65536 + (IF n >= 2 THEN bs[2] ELSE 0) * 256
                  + (IF n >= 3 THEN bs[3] ELSE 0)
             c1 == B64Alphabet[(w \div 262144) + 1]
             c2 == B64Alphabet[((w \div 4096) % 64) + 1]
             c3 == B64Alphabet[((w \div 64) % 64) + 1]
             c4 == B64Alphabet[(w % 64) + 1]
         IN  IF n = 1 THEN <<c1, c2, "=", "=">>
             ELSE IF n = 2 THEN <<c1, c2, c3, "=">>
             ELSE <<c1, c2, c3, c4>> \o b64encode(SubSeq(bs, 4, n))

SchemeChars == Range(AsciiUpper) \cup Range(AsciiLower) \cup Digits \cup {"+", "-", "."}

\* index of the first character of s that is in cs, at or after i, 0 if none
RECURSIVE FindAnyOf(_, _, _)
FindAnyOf(s, cs, i) ==
    IF i > Len(s) THEN 0
    ELSE IF s[i] \in cs THEN i
    ELSE FindAnyOf(s, cs, i + 1)

\* index of the last occurrence of c in s, 0 if none
LastIndexOf(s, c) ==
    IF InList(c, s)
    THEN CHOOSE i \in DOMAIN s : s[i] = c /\ \A j \in DOMAIN s : j > i => s[j] /= c
    ELSE 0

\* urlparse(url): the scheme is what precedes the first ':' when it starts with a
\* letter and holds scheme characters only, lower-cased; the netloc follows '//'
\* up to the next '/', '?' or '#'; the hostname is the netloc without userinfo
\* and port, lower-cased (None, here the empty string, when there is none)
urlparse(url) ==
    LET i == FindChar(url, ":", 1)
        hasScheme == /\ i > 1
                     /\ url[1] \in Range(AsciiUpper) \cup Range(AsciiLower)
                     /\ \A k \in 1..(i - 1) : url[k] \in SchemeChars
        scheme == IF hasScheme THEN Lower(SubSeq(url, 1, i - 1)) ELSE <<>>
        rest == IF hasScheme THEN SubSeq(url, i + 1, Len(url)) ELSE url
        hasNetloc == Len(rest) >= 2 /\ rest[1] = "/" /\ rest[2] = "/"
        d == FindAnyOf(rest, {"/", "?", "#"}, 3)
        netloc == IF hasNetloc
                  THEN SubSeq(rest, 3, IF d = 0 THEN Len(rest) ELSE d - 1)
                  ELSE <<>>
        hostinfo == SubSeq(netloc, LastIndexOf(netloc, "@") + 1, Len(netloc))
        colon == FindChar(hostinfo, ":", 1)
        hostname == IF colon = 0 THEN hostinfo ELSE SubSeq(hostinfo, 1, colon - 1)
    IN  [scheme |-> scheme, netloc |-> netloc, hostname |-> Lower(hostname)]

Http == <<"h", "t", "t", "p">>
Https == <<"h", "t", "t", "p", "s">>

\* 'raw.githubusercontent.com'
RawHost ==
    << "r", "a", "w", ".", "g", "i", "t", "h", "u", "b", "u", "s", "e", "r", "c",
       "o", "n", "t", "e", "n", "t", ".", "c", "o", "m" >>

\* 'Basic ' and 'gzip'
Basic == <<"B", "a", "s", "i", "c", " ">>
Gzip == <<"g", "z", "i", "p">>

\* 'rosdep/{version}'.format(version=__version__), for one value of the version
\* string, which no branch of urlopen_gzip depends on
RosdepVersion == <<"0", ".", "2", "5", ".", "1">>
UserAgent == <<"r", "o", "s", "d", "e", "p", "/">> \o RosdepVersion

\* https://raw.githubusercontent.com/r
UrlRawHttps ==
    << "h", "t", "t", "p", "s", ":", "/", "/", "r", "a", "w", ".", "g", "i", "t",
       "h", "u", "b", "u", "s", "e", "r", "c", "o", "n", "t", "e", "n", "t", ".",
       "c", "o", "m", "/", "r" >>

\* http://raw.githubusercontent.com/r
UrlRawHttp ==
    << "h", "t", "t", "p", ":", "/", "/", "r", "a", "w", ".", "g", "i", "t", "h",
       "u", "b", "u", "s", "e", "r", "c", "o", "n", "t", "e", "n", "t", ".", "c",
       "o", "m", "/", "r" >>

\* HTTPS://u@Raw.GitHubUserContent.com:443/r
UrlRawMixedCase ==
    << "H", "T", "T", "P", "S", ":", "/", "/", "u", "@", "R", "a", "w", ".", "G",
       "i", "t", "H", "u", "b", "U", "s", "e", "r", "C", "o", "n", "t", "e", "n",
       "t", ".", "c", "o", "m", ":", "4", "4", "3", "/", "r" >>

\* https://raw.githubusercontent.com.example.org/r
UrlLookalike ==
    << "h", "t", "t", "p", "s", ":", "/", "/", "r", "a", "w", ".", "g", "i", "t",
       "h", "u", "b", "u", "s", "e", "r", "c", "o", "n", "t", "e", "n", "t", ".",
       "c", "o", "m", ".", "e", "x", "a", "m", "p", "l", "e", ".", "o", "r", "g",
       "/", "r" >>

\* https://example.org/r
UrlOther ==
    << "h", "t", "t", "p", "s", ":", "/", "/", "e", "x", "a", "m", "p", "l", "e",
       ".", "o", "r", "g", "/", "r" >>

\* ftp://raw.githubusercontent.com/r
UrlRawFtp ==
    << "f", "t", "p", ":", "/", "/", "r", "a", "w", ".", "g", "i", "t", "h", "u",
       "b", "u", "s", "e", "r", "c", "o", "n", "t", "e", "n", "t", ".", "c", "o",
       "m", "/", "r" >>

Urls == {UrlRawHttps, UrlRawHttp, UrlRawMixedCase, UrlLookalike, UrlOther, UrlRawFtp}

\* the two token variables of os.environ
GHCR_PAT == "GHCR_PAT"
API_TOKEN_GITHUB == "API_TOKEN_GITHUB"

\* token values: 'a', 'bc', the empty string, and one ASCII cannot encode
Tokens == {<<"a">>, <<"b", "c">>, <<>>, <<NonAsciiChar>>}

\* os.environ restricted to the two variables: each is unset or holds a token
Environs == UNION {[S -> Tokens] : S \in SUBSET {GHCR_PAT, API_TOKEN_GITHUB}}

NoEnviron == [n \in {} |-> <<>>]

\* what urlopen meets: a gzip-encoded body, any other body, or URLError
Responses == {"gzip", "plain", "URLError"}

NoHeaders == [n \in {} |-> <<>>]

\* the token the Authorization header is made of
AuthToken(env) ==
    IF GHCR_PAT \in DOMAIN env THEN env[GHCR_PAT] ELSE env[API_TOKEN_GITHUB]

\* urlopen(...) and the unwrapping of a gzip-encoded response
Fetch(custom, headers, warned, resp) ==
    [exc |-> IF resp = "URLError" THEN "URLError" ELSE "none",
     sent |-> TRUE, custom |-> custom, headers |-> headers, warned |-> warned,
     ret |-> IF resp = "URLError" THEN "none"
             ELSE IF custom /\ resp = "gzip" THEN "GzipFile"
             ELSE "response"]

urlopen_gzip(url, env, resp) ==
    LET uri == urlparse(url)
        base == [n \in {"Accept-Encoding", "User-Agent"} |->
                    IF n = "Accept-Encoding" THEN Gzip ELSE UserAgent]
    IN  IF uri.scheme \in {Http, Https}
        THEN IF /\ uri.hostname = RawHost
                /\ (GHCR_PAT \in DOMAIN env \/ API_TOKEN_GITHUB \in DOMAIN env)
             THEN LET warned == GHCR_PAT \in DOMAIN env
                      enc == encode_ascii(AuthToken(env) \o <<":">>)
                      auth == b64encode(enc.bytes)
                  IN  IF enc.exc /= "none"
                      THEN [exc |-> enc.exc, sent |-> FALSE, custom |-> TRUE,
                            headers |-> base, warned |-> warned, ret |-> "none"]
                      ELSE Fetch(TRUE, base @@ ("Authorization" :> (Basic \o auth)),
                                 warned, resp)
             ELSE Fetch(TRUE, base, FALSE, resp)
        ELSE Fetch(FALSE, NoHeaders, FALSE, resp)

UrlopenGzip ==
    /\ \E url \in Urls, resp \in Responses :
          LET r == urlopen_gzip(url, environ, resp)
          IN  call' = [op |-> "urlopen_gzip", url |-> url, resp |-> resp,
                       exc |-> r.exc, sent |-> r.sent, custom |-> r.custom,
                       headers |-> r.headers, warned |-> r.warned, ret |-> r.ret]
    /\ UNCHANGED <<installerVars, hostVars, loaderVars>>

----------------------------------------------------------------------------
(* Specifications *)

Idle == [op |-> "idle"]

\* a request never resolved, a host and a loader never asked
InstallerAtRest ==
    /\ request = [tag |-> "list", str |-> <<>>, list |-> <<>>]
    /\ rosdep = [given |-> FALSE, version_eq |-> <<>>, version_gte |-> <<>>,
                 version_lte |-> <<>>, version_gt |-> <<>>, version_lt |-> <<>>]
    /\ ncalls = 0
    /\ retPrev = NoPrev

HostAtRest ==
    /\ environ = NoEnviron
    /\ host = [env |-> [pipN |-> "ok", samePy |-> TRUE, importPip |-> TRUE, pythonN |-> "ok"],
               freezeOut |-> <<>>, freezeProbe |-> "ok",
               show |-> [n \in {PkgX, PkgY} |-> "missing"], pipGE24 |-> FALSE]

NoGets == [res |-> 0, pack |-> 0, stack |-> 0, getsRes |-> 0, getsCatkin |-> 0]

\* a loader just constructed: nothing memoized, nothing asked
LoaderFresh ==
    /\ cacheRes = NoCache
    /\ cacheCatkin = NoCache
    /\ nList = NoGets
    /\ first = [res |-> NoFirst, catkin |-> NoFirst]

\* one fixed set of manifests: A legacy, B structured, C legacy
PlainWorld ==
    [nodes |-> [n \in Packages |->
                   IF n = "B"
                   THEN [catkin |-> TRUE, rosdeps |-> {"bar"},
                         decl |-> <<Dep("bar", "exec", TRUE)>>]
                   ELSE [catkin |-> FALSE, rosdeps |-> {"foo"}, decl |-> <<>>]],
     depends |-> [n \in Packages |-> IF n = "A" THEN {"B"} ELSE {}],
     stackDecl |-> <<>>]

LoaderAtRest ==
    /\ LoaderFresh
    /\ rospackList = Packages
    /\ rosstackList = {"S", "M"}
    /\ world = PlainWorld
    /\ depTypes = IncludeDepTypes({})
    /\ db = {}
    /\ underlay = ""

\* PipInstaller.resolve on every request and every set of constraints
InitResolve ==
    /\ request \in Requests
    /\ rosdep \in Rosdeps
    /\ ncalls = 0
    /\ retPrev = NoPrev
    /\ HostAtRest
    /\ LoaderAtRest
    /\ call = Idle

NextResolve == Resolve

SpecResolve == InitResolve /\ [][NextResolve]_vars

\* pip_detect and get_install_command on every host
InitDetect ==
    /\ InstallerAtRest
    /\ host \in Hosts
    /\ environ = NoEnviron
    /\ LoaderAtRest
    /\ call = Idle

NextDetect == PipDetect \/ GetInstallCommand

SpecDetect == InitDetect /\ [][NextDetect]_vars

\* get_rosdeps and is_metapackage over every set of manifests, the index fixed
InitRosdeps ==
    /\ InstallerAtRest
    /\ HostAtRest
    /\ LoaderFresh
    /\ rospackList = Packages
    /\ rosstackList = {"S", "M"}
    /\ world \in Worlds
    /\ depTypes \in {IncludeDepTypes(a) : a \in DependencyTypeArgs}
    /\ db = {}
    /\ underlay = ""
    /\ call = Idle

NextRosdeps == GetRosdeps \/ IsMetapackage

SpecRosdeps == InitRosdeps /\ [][NextRosdeps]_vars

\* the memoized getters while the index changes
InitCache ==
    /\ InstallerAtRest
    /\ HostAtRest
    /\ LoaderFresh
    /\ rospackList \in SUBSET {"A", "B"}
    /\ rosstackList \in SUBSET {"S", "M"}
    /\ world = PlainWorld
    /\ depTypes = IncludeDepTypes({})
    /\ db = {}
    /\ underlay = ""
    /\ call = Idle

NextCache == GetLoadableResources \/ GetCatkinPaths \/ IndexChange

SpecCache == InitCache /\ [][NextCache]_vars

\* load_view against a database other loaders write to as well
InitViews ==
    /\ InstallerAtRest
    /\ HostAtRest
    /\ LoaderFresh
    /\ rospackList = Packages
    /\ rosstackList \in SUBSET Stacks
    /\ world = PlainWorld
    /\ depTypes = IncludeDepTypes({})
    /\ db = {}
    /\ underlay \in {"", "base"}
    /\ call = Idle

NextViews == LoadView \/ OtherLoaderSetsView

SpecViews == InitViews /\ [][NextViews]_vars

\* urlopen_gzip under every setting of the two token variables
InitFetch ==
    /\ InstallerAtRest
    /\ host = [env |-> [pipN |-> "ok", samePy |-> TRUE, importPip |-> TRUE,
                        pythonN |-> "ok"],
               freezeOut |-> <<>>, freezeProbe |-> "ok",
               show |-> [n \in {PkgX, PkgY} |-> "missing"], pipGE24 |-> FALSE]
    /\ environ \in Environs
    /\ LoaderAtRest
    /\ call = Idle

NextFetch == UrlopenGzip

SpecFetch == InitFetch /\ [][NextFetch]_vars

\* the whole program
Init ==
    /\ request \in Requests
    /\ rosdep \in Rosdeps
    /\ ncalls = 0
    /\ retPrev = NoPrev
    /\ host \in Hosts
    /\ environ \in Environs
    /\ LoaderFresh
    /\ rospackList \in SUBSET Packages
    /\ rosstackList \in SUBSET Stacks
    /\ world \in Worlds
    /\ depTypes \in {IncludeDepTypes(a) : a \in DependencyTypeArgs}
    /\ db = {}
    /\ underlay \in {"", "base"}
    /\ call = Idle

Next ==
    \/ NextResolve
    \/ NextDetect
    \/ NextRosdeps
    \/ NextCache
    \/ NextViews
    \/ NextFetch

Spec == Init /\ [][Next]_vars

----------------------------------------------------------------------------
(* Claims about PipInstaller.resolve *)

RECURSIVE JoinComma(_)
JoinComma(clauses) ==
    IF clauses = <<>> THEN <<>>
    ELSE IF Len(clauses) = 1 THEN clauses[1]
    ELSE clauses[1] \o <<",">> \o JoinComma(Tail(clauses))

\* one clause per present value, in the order ==, >=, <=, >, <
CanonicalClauses(rd) ==
    LET all == << [op |-> <<"=", "=">>, v |-> rd.version_eq],
                  [op |-> <<">", "=">>, v |-> rd.version_gte],
                  [op |-> <<"<", "=">>, v |-> rd.version_lte],
                  [op |-> <<">">>, v |-> rd.version_gt],
                  [op |-> <<"<">>, v |-> rd.version_lt] >>
        present == SelectSeq(all, LAMBDA c : c.v /= <<>>)
    IN  [i \in DOMAIN present |-> present[i].op \o present[i].v]

\* C1: every identifier resolve returns is the identifier it started from
\* followed by one clause per present value, in the order ==, >=, <=, >, <, the
\* clauses joined by single commas with none before the first; with no value
\* present, or no rosdep given, the identifiers come back unchanged.
C1_CanonicalSpecifier ==
    (call.op = "resolve" /\ call.exc = "none") =>
        LET suffix == IF rosdep.given THEN JoinComma(CanonicalClauses(rosdep)) ELSE <<>>
        IN  /\ Len(call.ret) = Len(call.packages)
            /\ \A i \in DOMAIN call.packages : call.ret[i] = call.packages[i] \o suffix

\* gte=1.0 and lte=2.0 on x give exactly x>=1.0,<=2.0
C1_Witness ==
    /\ call.op = "resolve"
    /\ call.exc = "none"
    /\ rosdep = [given |-> TRUE, version_eq |-> <<>>, version_gte |-> V10,
                 version_lte |-> V20, version_gt |-> <<>>, version_lt |-> <<>>]
    /\ call.packages = <<PkgX>>
    /\ call.ret = << <<"x", ">", "=", "1", ".", "0", ",", "<", "=", "2", ".", "0">> >>

\* C2: resolve leaves the caller's package list as it was, and a second call
\* with the same request object and the same constraints returns what the first
\* call returned.
C2_RequestReusable ==
    (call.op = "resolve" /\ call.exc = "none") =>
        /\ request.list = call.callerBefore
        /\ call.prev.has => call.ret = call.prev.val

----------------------------------------------------------------------------
(* Claims about pip_detect and get_install_command *)

\* the part of a requested name before its version constraint
RECURSIVE FindVersionChar(_, _)
FindVersionChar(s, i) ==
    IF i > Len(s) THEN 0
    ELSE IF s[i] \in {">", "<", "="} THEN i
    ELSE FindVersionChar(s, i + 1)

RequestedBase(p) ==
    LET k == FindVersionChar(p, 1)
    IN  IF k = 0 THEN p ELSE SubSeq(p, 1, k - 1)

\* the base names of the lines of the bulk listing
ListedBases(output) == {BeforeEqEq(row) : row \in Range(SplitOn(output, Newline))}

\* C6: with a custom exec function, a requested name is reported installed
\* whenever the listing holds a line with the requested name's base name, whatever
\* version constraint the requested name carries.
C6_MatchByBaseName ==
    (/\ call.op = "pip_detect"
     /\ call.custom
     /\ call.exc = "none"
     /\ Truthy(get_pip_command(host))) =>
        \A i \in DOMAIN call.pkgs :
            RequestedBase(call.pkgs[i]) \in ListedBases(host.freezeOut) =>
                \/ InList(call.pkgs[i], call.ret)
                \/ InList(RequestedBase(call.pkgs[i]), call.ret)

\* the packages an install plan is for: all of them on reinstall, else those
\* detect does not report
RECURSIVE NotDetected(_, _)
NotDetected(resolved, detected) ==
    IF resolved = <<>> THEN <<>>
    ELSE IF InList(Head(resolved), detected) THEN NotDetected(Tail(resolved), detected)
    ELSE <<Head(resolved)>> \o NotDetected(Tail(resolved), detected)

ShowProbeFails(h, pkgs) ==
    {p \in Range(pkgs) : ShowResult(h, ShowName(p)) = "oserror"}

\* C10: when the freeze listing or a package's show probe cannot be started,
\* pip_detect still returns normally and does not report the probed package.
C10_ProbeFailureNotRaised ==
    (/\ call.op = "pip_detect"
     /\ ~call.custom
     /\ Truthy(get_pip_command(host))) =>
        /\ host.freezeProbe /= "ok" => (call.exc = "none" /\ call.ret = <<>>)
        /\ \A p \in ShowProbeFails(host, call.pkgs) :
              (host.freezeProbe = "ok" /\ RequestedBase(p) \notin ListedBases(host.freezeOut))
                  => (call.exc = "none" /\ ~InList(p, call.ret))

----------------------------------------------------------------------------
(* Claims about RosPkgLoader.get_rosdeps *)

\* whether the index describes a resource by the legacy manifest
IsLegacy(w, name) == name \in Packages /\ ~w.nodes[name].catkin

\* a resource and everything reachable from it by depends-on, found by widening
\* the set one depends-on step at a time
RECURSIVE Widen(_, _, _)
Widen(w, R, k) ==
    IF k = 0 THEN R
    ELSE Widen(w, R \cup UNION {w.depends[m] : m \in R}, k - 1)

ReachableFrom(w, name) == Widen(w, {name}, Cardinality(Packages))

C4_ContainerIsEmpty ==
    (/\ call.op = "get_rosdeps"
     /\ \/ is_metapackage(world, rosstackList, call.name)
        \/ (call.name \in rosstackList /\ call.name \notin rospackList)) =>
        /\ call.exc = "none"
        /\ call.ret = <<>>

\* the keys get_rosdeps returns for a structured-shape resource
StructuredKeys(w, types, name) ==
    {d.name : d \in {x \in Range(w.nodes[name].decl) : x.type \in types /\ x.cond}}

\* the keys a structured-shape resource declares and get_rosdeps does not return
StructuredDropped(w, types, name) ==
    {d.name : d \in {x \in Range(w.nodes[name].decl) : ~(x.type \in types /\ x.cond)}}

\* what a legacy-shape resource's closure holds when each structured-shape
\* resource it reaches gives what get_rosdeps returns for it
MixedClosure(w, types, name) ==
    UNION { IF w.nodes[m].catkin THEN StructuredKeys(w, types, m)
            ELSE ManifestRosdeps(w, m) : m \in ReachableFrom(w, name) }

\* C5: get_rosdeps(A, implicit=True) on a legacy-shape A holds, for every
\* structured-shape B that A depends on, the dependencies get_rosdeps(B)
\* returns, and no dependency of B that get_rosdeps(B) drops (condition false,
\* category not allowed) unless another resource of the closure gives that key.
C5_StructuredDepsFiltered ==
    (/\ call.op = "get_rosdeps"
     /\ call.implicit
     /\ call.exc = "none"
     /\ IsLegacy(world, call.name)) =>
        \A b \in ReachableFrom(world, call.name) \ {call.name} :
            world.nodes[b].catkin =>
                /\ StructuredKeys(world, depTypes, b) \subseteq Range(call.ret)
                /\ \A k \in StructuredDropped(world, depTypes, b) :
                      k \in Range(call.ret) => k \in MixedClosure(world, depTypes, call.name)

----------------------------------------------------------------------------
(* Claims about load_view and the memoized getters *)

C9_ListedOnce ==
    /\ nList.res <= 1
    /\ nList.pack <= 1
    /\ nList.stack <= 1
    /\ call.op = "get_loadable_resources" => call.ret = first.res.val
    /\ call.op = "get_catkin_paths" => call.ret = first.catkin.val

----------------------------------------------------------------------------
(* C11: urlopen_gzip, precedence of the two token variables *)

\* the http/https URLs whose host is raw.githubusercontent.com
TrustedUrls == {UrlRawHttps, UrlRawHttp, UrlRawMixedCase}

Encodable(token) == \A i \in DOMAIN token : IsAscii(token[i])

\* 'Basic ' + base64(token + ':')
HeaderFrom(token) == Basic \o b64encode(encode_ascii(token \o <<":">>).bytes)

BothTokensSet == {GHCR_PAT, API_TOKEN_GITHUB} \subseteq DOMAIN environ

\* C11: for an http/https URL on the trusted raw-content host, when both GHCR_PAT
\* and API_TOKEN_GITHUB are set, the Authorization header of the request is
\* derived from the value of API_TOKEN_GITHUB; the value of GHCR_PAT is used
\* only when API_TOKEN_GITHUB is unset.  Stated for non-empty values that ASCII
\* can encode.
C11_NewerTokenPrecedence ==
    (/\ call.op = "urlopen_gzip"
     /\ call.url \in TrustedUrls
     /\ BothTokensSet
     /\ Truthy(environ[GHCR_PAT]) /\ Encodable(environ[GHCR_PAT])
     /\ Truthy(environ[API_TOKEN_GITHUB]) /\ Encodable(environ[API_TOKEN_GITHUB]))
    => /\ call.sent
       /\ "Authorization" \in DOMAIN call.headers
       /\ call.headers["Authorization"] = HeaderFrom(environ[API_TOKEN_GITHUB])

====
